---- MODULE Spec2Model ----
(***************************************************************************)
(* Model of retrieval_graph/crawler.py: the WebCrawler class.              *)
(*                                                                         *)
(* A URL is a sequence of one-character strings, so that the string        *)
(* operations of normalize_url (count('/'), endswith('/'), rstrip('/'))    *)
(* and of is_allowed (netloc, endswith) are computed as the code computes  *)
(* them.                                                                   *)
(***************************************************************************)
EXTENDS Integers, Sequences, FiniteSets, TLC

VARIABLES
    starter_urls,     \* self.starter_urls
    hops,             \* self.hops
    allowed_domains,  \* self.allowed_domains
    visited_urls,     \* self.visited_urls
    crawled_pages,    \* self.crawled_pages
    queue,            \* the local queue of crawl(): <<url, depth>> entries
    pc,               \* position of crawl(): "init", "loop", "done", "raised"
    browser,          \* "none", "open", "closed"
    open_pages,       \* pages created by context.new_page() that are open
    web,              \* the link lists the site served so far, per page
    anchors,          \* the number of anchors the pages fetched so far held
    fetched,          \* history: one entry per call of page.goto
    last,             \* history: what the last loop iteration did
    faults,           \* the failures the environment has produced so far
    n_in,             \* the arguments of the call of a unit run
    n_out             \* the results of that call

vars == <<starter_urls, hops, allowed_domains, visited_urls,
          crawled_pages, queue, pc, browser, open_pages, web,
          fetched, last, faults, anchors, n_in, n_out>>

(***************************************************************************)
(* Bounds                                                                  *)
(***************************************************************************)
\* the largest hop limit a caller passes
MaxHops == 1
\* the anchors the pages fetched in one run hold, in all
MaxAnchors == 3
\* the failures (exceptions, bad statuses) of one run
MaxFaults == 1

(***************************************************************************)
(* Strings                                                                 *)
(***************************************************************************)
SL == "/"

\* str.count(ch)
RECURSIVE Count(_, _)
Count(s, ch) ==
    IF s = <<>> THEN 0
    ELSE (IF Head(s) = ch THEN 1 ELSE 0) + Count(Tail(s), ch)

\* str.endswith(suffix)
EndsWith(s, suffix) ==
    /\ Len(suffix) <= Len(s)
    /\ SubSeq(s, Len(s) - Len(suffix) + 1, Len(s)) = suffix

\* str.startswith(prefix)
StartsWith(s, prefix) ==
    /\ Len(prefix) <= Len(s)
    /\ SubSeq(s, 1, Len(prefix)) = prefix

\* str.rstrip(ch): every trailing ch is removed
RECURSIVE RStrip(_, _)
RStrip(s, ch) ==
    IF s # <<>> /\ s[Len(s)] = ch
    THEN RStrip(SubSeq(s, 1, Len(s) - 1), ch)
    ELSE s

\* str.find over a set of characters: the first index holding one of them,
\* Len(s) + 1 if there is none
FirstOf(s, chars) ==
    IF \E i \in 1..Len(s) : s[i] \in chars
    THEN CHOOSE i \in 1..Len(s) :
            /\ s[i] \in chars
            /\ \A j \in 1..(i - 1) : s[j] \notin chars
    ELSE Len(s) + 1

\* urllib.parse.urldefrag(url)[0]: the URL without its fragment
urldefrag(url) == SubSeq(url, 1, FirstOf(url, {"#"}) - 1)

\* the part of the URL after "scheme:" (the whole URL if it has no scheme)
AfterScheme(url) ==
    LET c == FirstOf(url, {":", SL, "?", "#"})
    IN  IF c <= Len(url) /\ url[c] = ":" /\ c > 1
        THEN SubSeq(url, c + 1, Len(url))
        ELSE url

\* "scheme:" of the URL (empty if it has none)
SchemePart(url) == SubSeq(url, 1, Len(url) - Len(AfterScheme(url)))

\* urllib.parse.urlparse(url).netloc
Netloc(url) ==
    LET rest == AfterScheme(url)
    IN  IF StartsWith(rest, <<SL, SL>>)
        THEN LET r2 == SubSeq(rest, 3, Len(rest))
             IN  SubSeq(r2, 1, FirstOf(r2, {SL, "?", "#"}) - 1)
        ELSE <<>>

\* urllib.parse.urlparse(url).path followed by query and fragment
PathEtc(url) ==
    LET rest == AfterScheme(url)
    IN  IF StartsWith(rest, <<SL, SL>>)
        THEN SubSeq(rest, 3 + Len(Netloc(url)), Len(rest))
        ELSE rest

\* urllib.parse.urljoin(base, href) for the reference kinds a page holds:
\* an empty reference, an absolute URL, a network-path or absolute-path
\* reference (a relative path is merged with the base path's directory)
urljoin(base, href) ==
    IF href = <<>> THEN base
    ELSE IF SchemePart(href) # <<>> THEN href
    ELSE IF StartsWith(href, <<SL, SL>>) THEN SchemePart(base) \o href
    ELSE IF Head(href) = SL
         THEN SchemePart(base) \o <<SL, SL>> \o Netloc(base) \o href
    ELSE LET p == urldefrag(PathEtc(base))
             dirs == {i \in 1..Len(p) : p[i] = SL}
             dir == IF dirs = {} THEN <<SL>>
                    ELSE SubSeq(p, 1, CHOOSE i \in dirs : \A j \in dirs : j <= i)
         IN  SchemePart(base) \o <<SL, SL>> \o Netloc(base) \o dir \o href

\* normalize_url with the trailing slashes removed before the fragment
normalize_url_StripFirst(url) ==
    LET d == RStrip(url, SL)
    IN  IF Count(d, SL) = 2 /\ ~EndsWith(d, <<SL>>)
        THEN urldefrag(d) \o <<SL>>
        ELSE urldefrag(d)

(***************************************************************************)
(* WebCrawler.normalize_url                                                *)
(***************************************************************************)
normalize_url(url) ==
    LET d == urldefrag(url)
    IN  IF Count(d, SL) = 2 /\ ~EndsWith(d, <<SL>>)
        THEN d \o <<SL>>
        ELSE RStrip(d, SL)

(***************************************************************************)
(* WebCrawler.is_allowed                                                   *)
(***************************************************************************)
is_allowed(url) ==
    \E allowed \in allowed_domains : EndsWith(Netloc(url), allowed)

(***************************************************************************)
(* The sites the crawler runs against                                      *)
(***************************************************************************)
\* "h" stands for the scheme http, "a.c" and "b.d" for two hosts
SCHEME == <<"h", ":", "/", "/">>
HostA == <<"a", ".", "c">>
HostB == <<"b", ".", "d">>
RootA == SCHEME \o HostA
PageP == SCHEME \o HostA \o <<"/", "p">>
PageQ == SCHEME \o HostB \o <<"/", "q">>

\* the values of starter_urls a caller passes
StarterLists ==
    {<<RootA>>, <<RootA \o <<"/">>>>, <<RootA, RootA \o <<"/">>>>,
     <<PageP \o <<"/">>, PageP>>, <<PageQ>>, <<PageQ, PageP>>,
     <<RootA, PageP>>}

\* the href attributes the anchors of a page hold
LinkRefs == {RootA, <<"/", "p", "/", "#", "f">>, PageQ, <<>>}

\* the values of allowed_domains a caller passes
DomainChoices == {{HostA}, {HostB}}

\* response.status values around the two limits of the status test
Statuses == {199, 200, 399, 400}

SeqsUpTo(S, n) == UNION {[1..k -> S] : k \in 0..n}

\* the lists of hrefs that page.locator("a[href]") yields on one page, the
\* pages fetched in one run holding at most MaxAnchors anchors in all
LinkLists == SeqsUpTo(LinkRefs, MaxAnchors - anchors)

\* the resource a navigation to url requests: an empty path requests "/"
PageOf(url) == IF PathEtc(url) = <<>> THEN url \o <<SL>> ELSE url

(***************************************************************************)
(* WebCrawler.crawl                                                        *)
(***************************************************************************)
\* queue = [(self.normalize_url(url), 0) for url in self.starter_urls]
InitialQueue ==
    [i \in 1..Len(starter_urls) |-> <<normalize_url(starter_urls[i]), 0>>]

\* the skip test without the hop limit
ShouldSkip_NoHopTest(normalized_url, depth) ==
    normalized_url \in visited_urls

\* the skip test without the visited set
ShouldSkip_NoVisitedTest(normalized_url, depth) ==
    depth > hops

\* if normalized_url in self.visited_urls or depth > self.hops: continue
ShouldSkip(normalized_url, depth) ==
    normalized_url \in visited_urls \/ depth > hops

\* the status test without its lower limit
StatusFailed_NoLowerLimit(status) == status >= 400

\* if response.status < 200 or response.status >= 400
StatusFailed(status) == status < 200 \/ status >= 400

\* the URL marked visited before the status test
MarkVisited_BeforeStatusTest(status, normalized_url) ==
    visited_urls \cup {normalized_url}

\* self.visited_urls.add(normalized_url), reached only past the status test
MarkVisited(status, normalized_url) ==
    IF StatusFailed(status) THEN visited_urls
    ELSE visited_urls \cup {normalized_url}

\* the enqueue test without the Domain Filter
LinkAccepted_NoDomainTest(normalized_href, visited) ==
    normalized_href \notin visited

\* the test that guards queue.append for one href
LinkAccepted(normalized_href, visited) ==
    is_allowed(normalized_href) /\ normalized_href \notin visited

\* the for loop appending the links at the depth of the page they are on
RECURSIVE NewEntries_SameDepth(_, _, _, _)
NewEntries_SameDepth(current_url, depth, links, visited) ==
    IF links = <<>> THEN <<>>
    ELSE LET href == Head(links)
             normalized_href == normalize_url(urljoin(current_url, href))
             rest == NewEntries_SameDepth(current_url, depth, Tail(links),
                                          visited)
         IN  IF href # <<>> /\ LinkAccepted(normalized_href, visited)
             THEN <<(<<normalized_href, depth>>)>> \o rest
             ELSE rest

\* the for loop over the links of a page: the entries it appends
RECURSIVE NewEntries(_, _, _, _)
NewEntries(current_url, depth, links, visited) ==
    IF links = <<>> THEN <<>>
    ELSE LET href == Head(links)
             normalized_href == normalize_url(urljoin(current_url, href))
             rest == NewEntries(current_url, depth, Tail(links), visited)
         IN  IF href # <<>> /\ LinkAccepted(normalized_href, visited)
             THEN <<(<<normalized_href, depth + 1>>)>> \o rest
             ELSE rest

\* WebCrawler.save_page_content: the record appended to crawled_pages; the
\* uuid4 file name is the number of the file written, the content is the
\* rendered page
save_page_content(content, url) ==
    Append(crawled_pages,
           [url |-> url, local_filepath |-> Len(fetched) + 1,
            size |-> Len(content)])

current_url == queue[1][1]
depth == queue[1][2]
normalized_url == normalize_url(current_url)

\* the record of one call of page.goto(current_url): ok tells whether the
\* response passed the status test
Fetch(ok) ==
    Append(fetched, [url |-> current_url, key |-> normalized_url,
                     depth |-> depth, ok |-> ok])

\* what one loop iteration did: the entry it dequeued and the status of the
\* response, 0 when page.goto was not called or returned none
Did(op, status) ==
    [op |-> op, url |-> current_url, depth |-> depth, status |-> status]

\* async_playwright(), chromium.launch, new_context, the initial queue
Launch ==
    /\ pc = "init"
    /\ pc' = "loop"
    /\ browser' = "open"
    /\ queue' = InitialQueue
    /\ last' = [op |-> "launch", url |-> <<>>, depth |-> 0, status |-> 0]
    /\ UNCHANGED <<starter_urls, hops, allowed_domains, visited_urls,
                   crawled_pages, open_pages, fetched, faults>>

\* chromium.launch raises (there is no browser), or new_context raises: the
\* exception is outside the try and leaves the async with block, whose exit
\* stops Playwright and with it the browser it launched; crawl raises
LaunchError ==
    /\ pc = "init"
    /\ faults < MaxFaults
    /\ faults' = faults + 1
    /\ pc' = "raised"
    /\ \E b \in {"none", "closed"} : browser' = b
    /\ last' = [op |-> "launch_error", url |-> <<>>, depth |-> 0, status |-> 0]
    /\ UNCHANGED <<starter_urls, hops, allowed_domains, visited_urls,
                   crawled_pages, queue, open_pages, fetched>>

\* an entry already visited or beyond the hop limit is dropped
SkipEntry ==
    /\ pc = "loop" /\ queue # <<>>
    /\ ShouldSkip(normalized_url, depth)
    /\ queue' = Tail(queue)
    /\ last' = Did("skip", 0)
    /\ UNCHANGED <<starter_urls, hops, allowed_domains, visited_urls,
                   crawled_pages, pc, browser, open_pages, fetched, faults>>

\* page.goto raises (timeout, network error): caught by except Exception
GotoError ==
    /\ pc = "loop" /\ queue # <<>>
    /\ ~ShouldSkip(normalized_url, depth)
    /\ faults < MaxFaults
    /\ faults' = faults + 1
    /\ queue' = Tail(queue)
    /\ open_pages' = open_pages + 1
    /\ fetched' = Fetch(FALSE)
    /\ last' = Did("goto_error", 0)
    /\ UNCHANGED <<starter_urls, hops, allowed_domains, visited_urls,
                   crawled_pages, pc, browser>>

\* the response status is outside [200, 400): print and continue
BadStatus ==
    /\ pc = "loop" /\ queue # <<>>
    /\ ~ShouldSkip(normalized_url, depth)
    /\ faults < MaxFaults
    /\ faults' = faults + 1
    /\ \E status \in Statuses :
        /\ StatusFailed(status)
        /\ visited_urls' = MarkVisited(status, normalized_url)
        /\ last' = Did("bad_status", status)
    /\ queue' = Tail(queue)
    /\ open_pages' = open_pages + 1
    /\ fetched' = Fetch(FALSE)
    /\ UNCHANGED <<starter_urls, hops, allowed_domains,
                   crawled_pages, pc, browser>>

\* the status is good, the URL is marked visited, page.content() raises
ContentError ==
    /\ pc = "loop" /\ queue # <<>>
    /\ ~ShouldSkip(normalized_url, depth)
    /\ faults < MaxFaults
    /\ faults' = faults + 1
    /\ \E status \in Statuses :
        /\ ~StatusFailed(status)
        /\ visited_urls' = MarkVisited(status, normalized_url)
        /\ last' = Did("content_error", status)
    /\ queue' = Tail(queue)
    /\ open_pages' = open_pages + 1
    /\ fetched' = Fetch(TRUE)
    /\ UNCHANGED <<starter_urls, hops, allowed_domains,
                   crawled_pages, pc, browser>>

\* open() or file.write() raises inside save_page_content: the OSError is an
\* Exception, caught by the except of the loop body
SaveError ==
    /\ pc = "loop" /\ queue # <<>>
    /\ ~ShouldSkip(normalized_url, depth)
    /\ faults < MaxFaults
    /\ faults' = faults + 1
    /\ \E status \in Statuses :
        /\ ~StatusFailed(status)
        /\ visited_urls' = MarkVisited(status, normalized_url)
        /\ last' = Did("save_error", status)
    /\ queue' = Tail(queue)
    /\ open_pages' = open_pages + 1
    /\ fetched' = Fetch(TRUE)
    /\ UNCHANGED <<starter_urls, hops, allowed_domains,
                   crawled_pages, pc, browser>>

\* the page is saved; element_handles() raises (no link is handled), or
\* get_attribute() raises on link k + 1 after the first k links were handled:
\* the entries appended so far stay in the queue
LinksError(links) ==
    /\ pc = "loop" /\ queue # <<>>
    /\ ~ShouldSkip(normalized_url, depth)
    /\ faults < MaxFaults
    /\ faults' = faults + 1
    /\ \E status \in Statuses :
        /\ ~StatusFailed(status)
        /\ visited_urls' = MarkVisited(status, normalized_url)
        /\ last' = Did("links_error", status)
    /\ crawled_pages' = save_page_content(PageOf(current_url), current_url)
    /\ \E k \in 0..Len(links) :
        /\ k < Len(links) \/ k = 0
        /\ queue' = Tail(queue) \o
                    NewEntries(current_url, depth, SubSeq(links, 1, k),
                               visited_urls')
    /\ open_pages' = open_pages + 1
    /\ fetched' = Fetch(TRUE)
    /\ UNCHANGED <<starter_urls, hops, allowed_domains, pc, browser>>

\* the loop body with the new entries put at the front of the queue
\* (queue.insert(0, ...)): a depth-first traversal
CrawlPage_Stack(links) ==
    /\ pc = "loop" /\ queue # <<>>
    /\ ~ShouldSkip(normalized_url, depth)
    /\ \E status \in Statuses :
        /\ ~StatusFailed(status)
        /\ visited_urls' = MarkVisited(status, normalized_url)
        /\ last' = Did("ok", status)
    /\ crawled_pages' = save_page_content(PageOf(current_url), current_url)
    /\ queue' = NewEntries(current_url, depth, links, visited_urls') \o
                Tail(queue)
    /\ fetched' = Fetch(TRUE)
    /\ UNCHANGED <<starter_urls, hops, allowed_domains, pc, browser,
                   open_pages, faults>>

\* the whole loop body runs: visited, saved, links appended, page closed
CrawlPage(links) ==
    /\ pc = "loop" /\ queue # <<>>
    /\ ~ShouldSkip(normalized_url, depth)
    /\ \E status \in Statuses :
        /\ ~StatusFailed(status)
        /\ visited_urls' = MarkVisited(status, normalized_url)
        /\ last' = Did("ok", status)
    /\ crawled_pages' = save_page_content(PageOf(current_url), current_url)
    /\ queue' = Tail(queue) \o
                NewEntries(current_url, depth, links, visited_urls')
    /\ fetched' = Fetch(TRUE)
    /\ UNCHANGED <<starter_urls, hops, allowed_domains, pc, browser,
                   open_pages, faults>>

\* the loop ends and crawl returns without a call of browser.close()
Finish_NoBrowserClose ==
    /\ pc = "loop" /\ queue = <<>>
    /\ pc' = "done"
    /\ last' = [op |-> "finish", url |-> <<>>, depth |-> 0, status |-> 0]
    /\ UNCHANGED <<starter_urls, hops, allowed_domains, visited_urls,
                   crawled_pages, queue, browser, open_pages, fetched,
                   faults>>

\* the queue is empty: browser.close(), which closes the browser and every
\* page of it that is still open, and crawl returns
Finish ==
    /\ pc = "loop" /\ queue = <<>>
    /\ pc' = "done"
    /\ browser' = "closed"
    /\ open_pages' = 0
    /\ last' = [op |-> "finish", url |-> <<>>, depth |-> 0, status |-> 0]
    /\ UNCHANGED <<starter_urls, hops, allowed_domains, visited_urls,
                   crawled_pages, queue, fetched, faults>>

\* WebCrawler.__init__ followed by the values the unit run does not use
Init ==
    /\ starter_urls \in StarterLists
    /\ hops \in 0..MaxHops
    /\ allowed_domains \in DomainChoices
    /\ visited_urls = {}
    /\ crawled_pages = <<>>
    /\ queue = <<>>
    /\ pc = "init"
    /\ browser = "none"
    /\ open_pages = 0
    /\ web = <<>>
    /\ fetched = <<>>
    /\ last = [op |-> "new", url |-> <<>>, depth |-> 0, status |-> 0]
    /\ faults = 0
    /\ anchors = 0
    /\ n_in = <<>>
    /\ n_out = <<>>

\* One crawl() against pages that may fail and may change between fetches
Next ==
    \/ (Launch /\ UNCHANGED <<web, anchors, n_in, n_out>>)
    \/ (LaunchError /\ UNCHANGED <<web, anchors, n_in, n_out>>)
    \/ (SkipEntry /\ UNCHANGED <<web, anchors, n_in, n_out>>)
    \/ (GotoError /\ UNCHANGED <<web, anchors, n_in, n_out>>)
    \/ (BadStatus /\ UNCHANGED <<web, anchors, n_in, n_out>>)
    \/ (ContentError /\ UNCHANGED <<web, anchors, n_in, n_out>>)
    \/ (SaveError /\ UNCHANGED <<web, anchors, n_in, n_out>>)
    \/ (\E links \in LinkLists :
            /\ LinksError(links)
            /\ anchors' = anchors + Len(links)
            /\ UNCHANGED <<web, n_in, n_out>>)
    \/ (\E links \in LinkLists :
            /\ CrawlPage(links)
            /\ anchors' = anchors + Len(links)
            /\ UNCHANGED <<web, n_in, n_out>>)
    \/ (Finish /\ UNCHANGED <<web, anchors, n_in, n_out>>)

Spec == Init /\ [][Next]_vars

(***************************************************************************)
(* One crawl() in which every fetch succeeds, against a site that serves   *)
(* the same page on every fetch of it: web remembers the anchors served.   *)
(***************************************************************************)
ServedLists(url) ==
    IF PageOf(url) \in DOMAIN web THEN {web[PageOf(url)]} ELSE LinkLists

Served(url, links) ==
    [p \in DOMAIN web \cup {PageOf(url)} |->
        IF p = PageOf(url) THEN links ELSE web[p]]

CrawlSitePage ==
    /\ pc = "loop" /\ queue # <<>>
    /\ \E links \in ServedLists(current_url) :
        /\ CrawlPage(links)
        /\ web' = Served(current_url, links)
        /\ anchors' = IF PageOf(current_url) \in DOMAIN web THEN anchors
                      ELSE anchors + Len(links)

NextSite ==
    \/ (Launch /\ UNCHANGED <<web, anchors, n_in, n_out>>)
    \/ (SkipEntry /\ UNCHANGED <<web, anchors, n_in, n_out>>)
    \/ (CrawlSitePage /\ UNCHANGED <<n_in, n_out>>)
    \/ (Finish /\ UNCHANGED <<web, anchors, n_in, n_out>>)

SpecSite == Init /\ [][NextSite]_vars

(***************************************************************************)
(* Unit runs of normalize_url: two URLs are drawn and both are normalized  *)
(***************************************************************************)
\* the longest path of a URL drawn
MaxPath == 3

\* the paths of the URLs drawn: empty, or slash-led, over "/" and "p"
NormPaths ==
    {p \in SeqsUpTo({SL, "p"}, MaxPath) : p = <<>> \/ Head(p) = SL}

NormFrags == {<<>>, <<"#">>, <<"#", "f">>, <<"#", SL>>}

NormURLs == {SCHEME \o HostA \o p \o f : p \in NormPaths, f \in NormFrags}

InitNorm ==
    /\ starter_urls = <<>>
    /\ hops = 0
    /\ allowed_domains = {}
    /\ visited_urls = {}
    /\ crawled_pages = <<>>
    /\ queue = <<>>
    /\ pc = "init"
    /\ browser = "none"
    /\ open_pages = 0
    /\ web = <<>>
    /\ fetched = <<>>
    /\ last = [op |-> "new", url |-> <<>>, depth |-> 0, status |-> 0]
    /\ faults = 0
    /\ anchors = 0
    /\ n_in \in NormURLs \X NormURLs
    /\ n_out = <<>>

Normalize ==
    /\ n_out = <<>>
    /\ n_out' = <<normalize_url(n_in[1]), normalize_url(n_in[2])>>
    /\ UNCHANGED <<starter_urls, hops, allowed_domains, visited_urls,
                   crawled_pages, queue, pc, browser, open_pages, web,
                   fetched, last, faults, anchors, n_in>>

NextNorm == Normalize

SpecNorm == InitNorm /\ [][NextNorm]_vars

(***************************************************************************)
(* Unit runs of is_allowed: a URL and an allow-list are drawn              *)
(***************************************************************************)
\* the URLs is_allowed is called with: the root and a page of a.c, a page
\* of a subdomain of a.c, of a host that ends in "a.c" past no dot, of a.c
\* with a port and with userinfo, of b.d, and a reference with no host
FilterURLs ==
    {RootA, PageP, PageQ,
     SCHEME \o <<"x", ".">> \o HostA \o <<SL, "p">>,
     SCHEME \o <<"x">> \o HostA \o <<SL, "p">>,
     SCHEME \o HostA \o <<":", "8", SL, "p">>,
     SCHEME \o <<"u", "@">> \o HostA \o <<SL, "p">>,
     SCHEME \o HostB \o <<"?", "a", ".", "c">>,
     <<SL, "p">>}

\* the entries of the allow-lists: two hosts, a suffix of one, the empty
\* string
FilterDomains == {HostA, HostB, <<".", "c">>, <<>>}

InitFilter ==
    /\ starter_urls = <<>>
    /\ hops = 0
    /\ allowed_domains \in SUBSET FilterDomains
    /\ visited_urls = {}
    /\ crawled_pages = <<>>
    /\ queue = <<>>
    /\ pc = "init"
    /\ browser = "none"
    /\ open_pages = 0
    /\ web = <<>>
    /\ fetched = <<>>
    /\ last = [op |-> "new", url |-> <<>>, depth |-> 0, status |-> 0]
    /\ faults = 0
    /\ anchors = 0
    /\ n_in \in {<<u>> : u \in FilterURLs}
    /\ n_out = <<>>

IsAllowed ==
    /\ n_out = <<>>
    /\ n_out' = <<is_allowed(n_in[1])>>
    /\ UNCHANGED <<starter_urls, hops, allowed_domains, visited_urls,
                   crawled_pages, queue, pc, browser, open_pages, web,
                   fetched, last, faults, anchors, n_in>>

NextFilter == IsAllowed

SpecFilter == InitFilter /\ [][NextFilter]_vars

(***************************************************************************)
(* One crawl() of a job with an empty or malformed starter URL             *)
(***************************************************************************)
\* starter URLs that are no absolute URL: the empty string, a URL without
\* a scheme, a path
BadURLs == {<<>>, HostA \o <<SL, "p">>, <<SL, "p">>}

\* the lists of one or two starter URLs that hold at least one of them
BadStarterLists ==
    {l \in SeqsUpTo(BadURLs \cup {PageP}, 2) :
        l # <<>> /\ \E i \in 1..Len(l) : l[i] \in BadURLs}

\* the browser navigates to absolute URLs only: page.goto raises for any
\* other string ("Cannot navigate to invalid URL")
Navigable(url) == SchemePart(url) # <<>> /\ Netloc(url) # <<>>

InitConfig ==
    /\ starter_urls \in BadStarterLists
    /\ hops \in 0..MaxHops
    /\ allowed_domains \in DomainChoices
    /\ visited_urls = {}
    /\ crawled_pages = <<>>
    /\ queue = <<>>
    /\ pc = "init"
    /\ browser = "none"
    /\ open_pages = 0
    /\ web = <<>>
    /\ fetched = <<>>
    /\ last = [op |-> "new", url |-> <<>>, depth |-> 0, status |-> 0]
    /\ faults = 0
    /\ anchors = 0
    /\ n_in = <<>>
    /\ n_out = <<>>

\* page.goto(current_url) raises because current_url is no absolute URL:
\* caught by except Exception, the loop goes on
GotoInvalid ==
    /\ pc = "loop" /\ queue # <<>>
    /\ ~ShouldSkip(normalized_url, depth)
    /\ ~Navigable(current_url)
    /\ queue' = Tail(queue)
    /\ open_pages' = open_pages + 1
    /\ fetched' = Fetch(FALSE)
    /\ last' = Did("goto_error", 0)
    /\ UNCHANGED <<starter_urls, hops, allowed_domains, visited_urls,
                   crawled_pages, pc, browser, faults>>

\* the fetch of a starter URL that is an absolute URL succeeds
CrawlGood(links) ==
    /\ pc = "loop" /\ queue # <<>>
    /\ Navigable(current_url)
    /\ CrawlPage(links)
    /\ anchors' = anchors + Len(links)

NextConfig ==
    \/ (Launch /\ UNCHANGED <<web, anchors, n_in, n_out>>)
    \/ (SkipEntry /\ UNCHANGED <<web, anchors, n_in, n_out>>)
    \/ (GotoInvalid /\ UNCHANGED <<web, anchors, n_in, n_out>>)
    \/ (\E links \in LinkLists :
            CrawlGood(links) /\ UNCHANGED <<web, n_in, n_out>>)
    \/ (Finish /\ UNCHANGED <<web, anchors, n_in, n_out>>)

SpecConfig == InitConfig /\ [][NextConfig]_vars

(***************************************************************************)
(* crawl() called again on the same WebCrawler: every fetch succeeds and   *)
(* the site serves the same pages as before                                *)
(***************************************************************************)
\* a call of crawl() after crawl() returned: visited_urls and crawled_pages
\* are set in __init__ only, the call finds them as the last call left them
CrawlAgain ==
    /\ pc = "done"
    /\ pc' = "init"
    /\ browser' = "none"
    /\ last' = [op |-> "crawl_again", url |-> <<>>, depth |-> 0, status |-> 0]
    /\ UNCHANGED <<starter_urls, hops, allowed_domains, visited_urls,
                   crawled_pages, queue, open_pages, fetched, faults>>

NextAgain ==
    \/ NextSite
    \/ (CrawlAgain /\ UNCHANGED <<web, anchors, n_in, n_out>>)

SpecAgain == Init /\ [][NextAgain]_vars

(***************************************************************************)
(* One crawl() that keeps running: every call awaited in the loop returns  *)
(* or raises (page.goto is given a timeout), so an iteration or the return *)
(* that is possible is eventually taken. The job crawls a.c from its root  *)
(* and a page, which may link to each other.                               *)
(***************************************************************************)
TermStarterLists == {<<RootA>>, <<RootA, PageP>>}

InitTerm ==
    /\ starter_urls \in TermStarterLists
    /\ hops \in 0..MaxHops
    /\ allowed_domains = {HostA}
    /\ visited_urls = {}
    /\ crawled_pages = <<>>
    /\ queue = <<>>
    /\ pc = "init"
    /\ browser = "none"
    /\ open_pages = 0
    /\ web = <<>>
    /\ fetched = <<>>
    /\ last = [op |-> "new", url |-> <<>>, depth |-> 0, status |-> 0]
    /\ faults = 0
    /\ anchors = 0
    /\ n_in = <<>>
    /\ n_out = <<>>

FairSpec == InitTerm /\ [][Next]_vars /\ WF_vars(Next)

(***************************************************************************)
(* Vocabulary of the properties                                            *)
(***************************************************************************)
Range(f) == {f[i] : i \in DOMAIN f}

\* the path component of a URL
UrlPath(url) ==
    LET rest == PathEtc(url)
    IN  SubSeq(rest, 1, FirstOf(rest, {"?", "#"}) - 1)

\* a bare scheme+host, given with or without a trailing slash
IsRootURL(url) == UrlPath(url) \in {<<>>, <<SL>>}

\* the URL without its fragment and without one trailing slash
DropFragmentAndSlash(url) ==
    LET d == urldefrag(url)
    IN  IF EndsWith(d, <<SL>>) THEN SubSeq(d, 1, Len(d) - 1) ELSE d

\* the two URLs differ at most by a fragment and by a trailing slash
SameButFragmentOrSlash(u, v) ==
    DropFragmentAndSlash(u) = DropFragmentAndSlash(v)

\* the canonical form section 4.1 of the specification describes: no
\* fragment, a root URL with one trailing slash, any other with none
Canon(url) ==
    LET d == urldefrag(url)
    IN  IF IsRootURL(d)
        THEN SchemePart(d) \o <<SL, SL>> \o Netloc(d) \o <<SL>>
        ELSE RStrip(d, SL)

\* the anchors the site served for the page at url
SiteLinks(url) ==
    IF PageOf(url) \in DOMAIN web THEN web[PageOf(url)] ELSE <<>>

\* the URLs one link hop away from the URLs of S, over links that pass the
\* Domain Filter
OneHop(S) ==
    UNION {{Canon(urljoin(u, SiteLinks(u)[k])) :
                k \in {i \in 1..Len(SiteLinks(u)) :
                            is_allowed(urljoin(u, SiteLinks(u)[i]))}} :
           u \in S}

\* the URLs at most n link hops away from the URLs of S
RECURSIVE WithinHops(_, _)
WithinHops(S, n) == IF n = 0 THEN S ELSE S \cup WithinHops(OneHop(S), n - 1)

RecordURLs == {crawled_pages[j].url : j \in 1..Len(crawled_pages)}

\* the step just taken called page.goto and the fetch failed: goto raised,
\* or the status of the response is outside [200, 400)
FetchFailedStep ==
    /\ Len(fetched') = Len(fetched) + 1
    /\ \/ last'.op = "goto_error"
       \/ last'.status \notin 200..399

(***************************************************************************)
(* C1. No frontier entry whose depth is greater than hops is fetched, and  *)
(* no record is appended for one: every call of page.goto and every record *)
(* is for an entry of depth at most hops; with hops = 0 only the seeds are  *)
(* fetched.                                                                *)
(***************************************************************************)
C1_HopLimit ==
    /\ \A i \in 1..Len(fetched) : fetched[i].depth <= hops
    /\ \A j \in 1..Len(crawled_pages) :
        LET f == crawled_pages[j].local_filepath
        IN  /\ f \in 1..Len(fetched)
            /\ fetched[f].url = crawled_pages[j].url
            /\ fetched[f].depth <= hops
    /\ hops = 0 =>
        \A i \in 1..Len(fetched) :
            /\ fetched[i].depth = 0
            /\ fetched[i].url \in {normalize_url(u) : u \in Range(starter_urls)}

\* an entry beyond the hop limit, of a URL not visited, was dequeued and
\* dropped
C1_Witness ==
    /\ last.op = "skip"
    /\ last.depth > hops
    /\ normalize_url(last.url) \notin visited_urls

(***************************************************************************)
(* C2 as claimed: no URL is the target of two calls of page.goto in one    *)
(* run, whatever the outcome of the first call (URLs taken in canonical    *)
(* form, so that the two spellings of a root URL are one URL).             *)
(***************************************************************************)
C2_NeverFetchedTwice ==
    \A i, j \in 1..Len(fetched) :
        i < j => Canon(fetched[i].url) # Canon(fetched[j].url)

\* page.goto is not called for a key that is in visited_urls: once a fetch
\* passed the status test, no later fetch has the same key
NoFetchOfVisitedKey ==
    \A i, j \in 1..Len(fetched) :
        (i < j /\ fetched[i].ok) => fetched[i].key # fetched[j].key

(***************************************************************************)
(* C3. A step whose fetch fails (goto raises, or the status is outside     *)
(* [200, 400)) leaves visited_urls and crawled_pages as they were, appends *)
(* nothing to the queue and leaves the loop running; the loop ends only    *)
(* when the queue is empty.                                                *)
(***************************************************************************)
C3_FetchFailureIsLocal ==
    /\ [][FetchFailedStep =>
            /\ visited_urls' = visited_urls
            /\ crawled_pages' = crawled_pages
            /\ queue' = Tail(queue)
            /\ pc' = "loop"]_vars
    /\ [](pc = "done" => queue = <<>>)

\* a fetch failed and a later entry of the queue was fetched after it
C3_Witness ==
    \E i, j \in 1..Len(fetched) : i < j /\ ~fetched[i].ok /\ fetched[j].ok

(***************************************************************************)
(* C4 as claimed: a storage write error in save_page_content aborts the    *)
(* crawl and is raised to the caller of crawl.                             *)
(***************************************************************************)
C4_SaveErrorAborts == last.op = "save_error" => pc = "raised"

C6_FrontierInScope ==
    \A i \in 1..Len(queue) : is_allowed(queue[i][1])

(***************************************************************************)
(* C7 as claimed: the url of every record of crawled_pages is a member of  *)
(* visited_urls.                                                           *)
(***************************************************************************)
C7_RecordUrlVisited ==
    \A j \in 1..Len(crawled_pages) : crawled_pages[j].url \in visited_urls

(***************************************************************************)
(* C8. visited_urls only grows, and a step adds a URL to it only when it   *)
(* fetched that URL and the response status is in [200, 400): the URL      *)
(* added is the normalized URL of the entry fetched.                       *)
(***************************************************************************)
C8_VisitedOnlyAfterGoodStatus ==
    [][/\ visited_urls \subseteq visited_urls'
       /\ visited_urls' # visited_urls =>
            /\ Len(fetched') = Len(fetched) + 1
            /\ last'.status \in 200..399
            /\ last'.url = queue[1][1]
            /\ visited_urls' = visited_urls \cup {normalize_url(last'.url)}]_vars

\* a link was enqueued, a fetch failed, and the only member of
\* visited_urls is the URL whose fetch succeeded
C8_Witness ==
    /\ Cardinality(visited_urls) = 1
    /\ Len(fetched) = 2
    /\ ~fetched[2].ok
    /\ fetched[1].key \in visited_urls
    /\ fetched[2].key \notin visited_urls

(***************************************************************************)
(* C9 as claimed: for every root URL, with or without a trailing slash,    *)
(* normalize_url returns a string that ends in exactly one slash, so two   *)
(* root URLs of one host normalize to the same string.                     *)
(***************************************************************************)
C9_RootEndsInOneSlash ==
    n_out # <<>> =>
        /\ IsRootURL(n_in[1]) =>
            /\ EndsWith(n_out[1], <<SL>>)
            /\ ~EndsWith(n_out[1], <<SL, SL>>)
        /\ (IsRootURL(n_in[1]) /\ IsRootURL(n_in[2])) => n_out[1] = n_out[2]

Host(url) ==
    LET auth == Netloc(url)
        ats == {i \in 1..Len(auth) : auth[i] = "@"}
        h == IF ats = {} THEN auth
             ELSE SubSeq(auth, (CHOOSE i \in ats : \A j \in ats : j <= i) + 1,
                         Len(auth))
    IN  SubSeq(h, 1, FirstOf(h, {":"}) - 1)

(***************************************************************************)
(* C11 as claimed: is_allowed(url) is true if and only if the host         *)
(* component of url ends with at least one entry of allowed_domains; it is *)
(* false for a host that ends with none of them and for an empty           *)
(* allowed_domains.                                                        *)
(***************************************************************************)
C11_HostSuffixMatch ==
    n_out # <<>> =>
        (n_out[1] <=> \E allowed \in allowed_domains :
                            EndsWith(Host(n_in[1]), allowed))

(***************************************************************************)
(* C12. Once a normalized URL is in visited_urls, no entry dequeued later  *)
(* whose normalized URL equals it is fetched, so that at most one record   *)
(* of crawled_pages has a URL that normalizes to a given member of         *)
(* visited_urls, also when the URL was enqueued several times.             *)
(***************************************************************************)
C12_VisitedNeverRefetched ==
    /\ NoFetchOfVisitedKey
    /\ \A v \in visited_urls :
        Cardinality({j \in 1..Len(crawled_pages) :
                        normalize_url(crawled_pages[j].url) = v}) <= 1

\* a URL was enqueued as a seed and as a link at depth 1 before either copy
\* was dequeued; the seed was fetched, and the copy at depth 1 was dequeued
\* within the hop limit and dropped
C12_Witness ==
    /\ last.op = "skip"
    /\ last.depth <= hops
    /\ ~IsRootURL(last.url)
    /\ normalize_url(last.url) \in visited_urls
    /\ \E i \in 1..Len(fetched) :
        /\ fetched[i].ok
        /\ fetched[i].key = normalize_url(last.url)
        /\ fetched[i].depth < last.depth
    /\ Cardinality({j \in 1..Len(crawled_pages) :
                        normalize_url(crawled_pages[j].url) =
                            normalize_url(last.url)}) = 1

(***************************************************************************)
(* C13 as claimed: when crawl returns, crawled_pages holds exactly one     *)
(* record for every member of visited_urls, so the number of records       *)
(* equals the number of members of visited_urls, whatever happened after   *)
(* the status test.                                                        *)
(***************************************************************************)
C13_OneRecordPerVisited ==
    pc = "done" =>
        /\ Len(crawled_pages) = Cardinality(visited_urls)
        /\ \A v \in visited_urls :
            Cardinality({j \in 1..Len(crawled_pages) :
                            normalize_url(crawled_pages[j].url) = v}) = 1

\* s is a prefix of t
IsPrefix(s, t) == Len(s) <= Len(t) /\ SubSeq(t, 1, Len(s)) = s

\* the values of last.op of the iterations of the loop: each dequeued one
\* entry
DequeueOps ==
    {"skip", "goto_error", "bad_status", "content_error", "save_error",
     "links_error", "ok"}

(***************************************************************************)
(* C14. The frontier is first-in first-out: the queue starts as the seeds  *)
(* in input order at depth 0; every iteration dequeues the head and leaves *)
(* the other entries in their order, new entries going to the back; so the *)
(* depths of the entries dequeued one after the other, of the fetches and  *)
(* of the records are non-decreasing.                                      *)
(***************************************************************************)
C14_FifoOrder ==
    /\ [][/\ (pc = "init" /\ pc' = "loop") =>
                /\ Len(queue') = Len(starter_urls)
                /\ \A i \in 1..Len(starter_urls) :
                    queue'[i] = <<normalize_url(starter_urls[i]), 0>>
          /\ (pc = "loop" /\ queue # <<>>) =>
                /\ last'.op \in DequeueOps
                /\ last'.url = Head(queue)[1]
                /\ last'.depth = Head(queue)[2]
                /\ IsPrefix(Tail(queue), queue')
                /\ last.op \in DequeueOps => last.depth <= last'.depth]_vars
    /\ [](/\ \A i, j \in 1..Len(queue) : i < j => queue[i][2] <= queue[j][2]
          /\ \A i, j \in 1..Len(fetched) :
                i < j => fetched[i].depth <= fetched[j].depth
          /\ \A i, j \in 1..Len(crawled_pages) :
                i < j => fetched[crawled_pages[i].local_filepath].depth <=
                         fetched[crawled_pages[j].local_filepath].depth)

\* two seeds were given; the first was fetched and a link of it enqueued at
\* depth 1 behind the second seed; the second seed was fetched next, and the
\* link after it
C14_Witness ==
    /\ Len(starter_urls) = 2
    /\ Len(fetched) = 3
    /\ fetched[1].depth = 0
    /\ fetched[2].depth = 0
    /\ fetched[2].url = normalize_url(starter_urls[2])
    /\ fetched[3].depth = 1
    /\ Len(crawled_pages) = 3

(***************************************************************************)
(* C15 as claimed: when an error occurs while the links of a fetched and   *)
(* saved page are enumerated or resolved, the record of the page is in     *)
(* crawled_pages and no link of that page is enqueued, the links read      *)
(* before the error included: the step only removes the head of the queue. *)
(***************************************************************************)
C15_NoLinkAfterExtractionError ==
    [][(last'.op = "links_error" /\ Len(fetched') = Len(fetched) + 1) =>
            /\ Len(crawled_pages') = Len(crawled_pages) + 1
            /\ crawled_pages'[Len(crawled_pages')].url = queue[1][1]
            /\ queue' = Tail(queue)]_vars

Malformed(url) == SchemePart(url) = <<>> \/ Host(url) = <<>>

(***************************************************************************)
(* C17 as claimed: a job with an empty or malformed starter URL is         *)
(* rejected before any fetch begins: page.goto is called for none of its   *)
(* starter URLs and crawl does not return normally.                        *)
(***************************************************************************)
C17_BadJobRejected ==
    (\E i \in 1..Len(starter_urls) : Malformed(starter_urls[i])) =>
        (fetched = <<>> /\ pc # "done")

(***************************************************************************)
(* C18 as claimed: every call of crawl starts cold: when the queue has     *)
(* just been set up from the starter URLs, visited_urls and crawled_pages  *)
(* are empty, also in a second call on the same WebCrawler.               *)
(***************************************************************************)
C18_StartsCold ==
    last.op = "launch" => (visited_urls = {} /\ crawled_pages = <<>>)

\* the weight of a queue entry: an entry within the hop limit outweighs the
\* MaxAnchors entries, one hop deeper, that its page can add
RECURSIVE Weight(_)
Weight(d) == IF d > hops THEN 1 ELSE (MaxAnchors + 1) * Weight(d + 1)

\* the work left in the queue: the sum of the weights of its entries
RECURSIVE Variant(_)
Variant(q) == IF q = <<>> THEN 0 ELSE Weight(Head(q)[2]) + Variant(Tail(q))

(***************************************************************************)
(* C19. The crawl loop terminates, whatever the starter list, the links of *)
(* the pages and the outcome of each fetch: crawl eventually returns or    *)
(* raises. No queue entry is deeper than hops + 1; an iteration appends    *)
(* entries only when it fetched, with a status in [200, 400), an entry     *)
(* within the hop limit that was not visited; so every iteration lessens   *)
(* the work left in the queue, and the loop ends when the queue is empty.  *)
(***************************************************************************)
C19_LoopTerminates ==
    /\ [](\A i \in 1..Len(queue) : queue[i][2] <= hops + 1)
    /\ [][(pc = "loop" /\ pc' = "loop") =>
            /\ Variant(queue') < Variant(queue)
            /\ Len(queue') >= Len(queue) =>
                /\ Len(fetched') = Len(fetched) + 1
                /\ last'.status \in 200..399
                /\ queue[1][2] <= hops
                /\ normalize_url(queue[1][1]) \notin visited_urls]_vars
    /\ [][(pc = "loop" /\ queue = <<>>) => pc' = "done"]_vars
    /\ <>(pc \in {"done", "raised"})

\* crawl returned after a run in which a fetch failed, the pages held
\* anchors, and a page and then a page one hop deeper were fetched
C19_Witness ==
    /\ pc = "done"
    /\ queue = <<>>
    /\ Len(fetched) >= 2
    /\ faults >= 1
    /\ anchors >= 2
    /\ last.op = "finish"
    /\ \E i, j \in 1..Len(fetched) :
        /\ i < j
        /\ fetched[i].ok /\ fetched[j].ok
        /\ fetched[j].depth = fetched[i].depth + 1

====
